---- MODULE Spec2Model ----
(***************************************************************************)
(* Model of custom_components/doorman/lock.py: one Doorman lock entity,    *)
(* its session (login_data), its seen report ids and its update() cycle    *)
(* against the Yale cloud API (login, status cycle, event report).         *)
(***************************************************************************)
EXTENDS Integers, Sequences, FiniteSets

VARIABLES
    state,        \* Doorman._state
    login_data,   \* Doorman.login_data (a dict: a function on its keys)
    report_ids,   \* Doorman.report_ids (a list)
    now,          \* datetime.timestamp(datetime.now())
    issued,       \* number of access tokens the vendor has issued so far
    pc,           \* position of update(): "idle" | "loop"
    states,       \* update()'s local list `states` not yet iterated
    published,    \* states written by async_write_ha_state() in this cycle
    outcome,      \* how the last update() ended ("running" inside one)
    histResp,     \* the event report response get_state_history() received,
                  \* kept until the cycle goes on to get_state()
    statusResp,   \* the status cycle response get_state() received
    logins,       \* login() calls made by the last validate_access_token()
    heap,         \* two entities of one setup call: the login_data dict
                  \* objects alive, by address
    entity        \* two entities of one setup call: each one's fields
                  \* (login_data as an address of heap)

vars == <<state, login_data, report_ids, now, issued, pc, states, published,
          outcome, histResp, statusResp, logins, heap, entity>>

-----------------------------------------------------------------------------
(* Bounds of the model *)

MaxBatch == 2      \* events in one history page
MaxTicks == 3      \* number of TimeStep units the clock may reach

-----------------------------------------------------------------------------
(* Constants of the program *)

LOCK_STATE == "device_status.lock"
UNLOCK_STATE == "device_status.unlock"
DOOR_LOCK == "device_type.door_lock"
OK == "OK!"
None == "None"

\* validate_access_token: (timestamp - 1000)
Margin == 1000

STATE_ENUM ==
    [c \in {"1816", "1815", "1807", "1801", "1802"} |->
        CASE c = "1816" -> LOCK_STATE
          [] c = "1815" -> UNLOCK_STATE
          [] c = "1807" -> LOCK_STATE
          [] c = "1801" -> UNLOCK_STATE
          [] c = "1802" -> UNLOCK_STATE]

NON_LOCK_EVENT == [c \in {"1602"} |-> LOCK_STATE]

-----------------------------------------------------------------------------
(* Inputs: what the vendor and the clock may deliver *)

TimeStep == Margin \div 2
Deltas == {TimeStep, Margin}
ExpiresIn == {TimeStep}

MyName == "front"
OtherName == "back"
JAMMED == "device_status.jammed"

Event(t, id, n, c) == [type |-> t, report_id |-> id, name |-> n, event_type |-> c]

Events ==
    { Event(DOOR_LOCK, 1, MyName, "1801"),
      Event(DOOR_LOCK, 2, OtherName, "1807"),
      Event(DOOR_LOCK, 3, MyName, "1602"),
      Event(DOOR_LOCK, 4, MyName, "9999"),
      Event("device_type.keypad", 5, MyName, "1801") }

SeqsUpTo(S, n) == UNION {[1..k -> S] : k \in 0..n}

Batches == SeqsUpTo(Events, MaxBatch)

Response(code, msg, d) == [status_code |-> code, message |-> msg, data |-> d]

\* no response object: requests.get raised (timeout, connection error)
NoResponse == Response(0, "", <<>>)

HistResponses ==
    {Response(200, OK, b) : b \in Batches}
        \cup {Response(200, "FAIL", <<>>), Response(500, "", <<>>), NoResponse}

Device(n, s) == [name |-> n, status_open |-> <<s>>]

DeviceLists ==
    { <<Device(MyName, LOCK_STATE)>>,
      <<Device(MyName, JAMMED)>>,
      <<Device(OtherName, LOCK_STATE)>>,
      <<Device(OtherName, LOCK_STATE), Device(MyName, UNLOCK_STATE)>>,
      <<Device(MyName, UNLOCK_STATE), Device(MyName, LOCK_STATE)>> }

StatusResponses ==
    {Response(200, OK, d) : d \in DeviceLists}
        \cup {Response(200, "FAIL", <<>>), Response(500, "", <<>>), NoResponse}

\* what the token endpoint may answer
LoginAnswers == {"token", "no_token", "raise"}

-----------------------------------------------------------------------------
(* login() *)

\* x in s, for a Python list s
InList(x, s) == \E i \in 1..Len(s) : s[i] = x

\* login(): the parsed body plus the "loggedin" stamp.  A "token" answer
\* carries access_token and expires_in, a "no_token" answer (an error body)
\* carries neither.
login(answer, t, tok, exp) ==
    IF answer = "token"
    THEN [access_token |-> tok, expires_in |-> exp, loggedin |-> t]
    ELSE [error |-> "invalid_grant", loggedin |-> t]

\* validate_access_token() without its comparison: every call logs in
TokenExpiredAlways(ld, t) == TRUE

\* the comparison of validate_access_token()
TokenExpired(ld, t) == (ld.loggedin + ld.expires_in) <= (t - Margin)

\* validate_access_token(): the session afterwards, the exception raised (if
\* any) and the number of login() calls made.
validate_access_token(ld, t, answer, tok, exp) ==
    IF "expires_in" \notin DOMAIN ld
    THEN [login_data |-> ld, exc |-> "KeyError:expires_in", calls |-> 0]
    ELSE IF ~TokenExpired(ld, t)
    THEN [login_data |-> ld, exc |-> "none", calls |-> 0]
    ELSE IF answer = "raise"
    THEN [login_data |-> ld, exc |-> "LoginError", calls |-> 1]
    ELSE [login_data |-> login(answer, t, tok, exp), exc |-> "none", calls |-> 1]

\* access_token = self.login_data["access_token"], after the validation
AccessTokenExc(v) ==
    IF v.exc # "none" THEN v.exc
    ELSE IF "access_token" \notin DOMAIN v.login_data THEN "KeyError:access_token"
    ELSE "none"

-----------------------------------------------------------------------------
(* get_state_history(): the loop over data.get("data") *)

\* ParseEvents with states.insert(0, state) in place of states.append(state)
RECURSIVE ParseEventsPrepend(_, _, _, _)
ParseEventsPrepend(data, i, ids, sts) ==
    IF i > Len(data)
    THEN [report_ids |-> ids, states |-> sts, exc |-> "none"]
    ELSE LET event == data[i] IN
         IF event.type = DOOR_LOCK /\ ~InList(event.report_id, ids)
         THEN LET ids2 == Append(ids, event.report_id) IN
              IF event.event_type \in DOMAIN NON_LOCK_EVENT
              THEN ParseEventsPrepend(data, i + 1, ids2, sts)
              ELSE IF event.event_type \notin DOMAIN STATE_ENUM
              THEN [report_ids |-> ids2, states |-> sts, exc |-> "KeyError:event_type"]
              ELSE ParseEventsPrepend(data, i + 1, ids2,
                                      <<STATE_ENUM[event.event_type]>> \o sts)
         ELSE ParseEventsPrepend(data, i + 1, ids, sts)

\* ParseEvents keeping only the latest report id (a window of one)
RECURSIVE ParseEventsEvict(_, _, _, _)
ParseEventsEvict(data, i, ids, sts) ==
    IF i > Len(data)
    THEN [report_ids |-> ids, states |-> sts, exc |-> "none"]
    ELSE LET event == data[i] IN
         IF event.type = DOOR_LOCK /\ ~InList(event.report_id, ids)
         THEN LET ids2 == <<event.report_id>> IN
              IF event.event_type \in DOMAIN NON_LOCK_EVENT
              THEN ParseEventsEvict(data, i + 1, ids2, sts)
              ELSE IF event.event_type \notin DOMAIN STATE_ENUM
              THEN [report_ids |-> ids2, states |-> sts, exc |-> "KeyError:event_type"]
              ELSE ParseEventsEvict(data, i + 1, ids2,
                                    Append(sts, STATE_ENUM[event.event_type]))
         ELSE ParseEventsEvict(data, i + 1, ids, sts)

\* ParseEvents with report_ids.append() moved after the classification
RECURSIVE ParseEventsMarkLate(_, _, _, _)
ParseEventsMarkLate(data, i, ids, sts) ==
    IF i > Len(data)
    THEN [report_ids |-> ids, states |-> sts, exc |-> "none"]
    ELSE LET event == data[i] IN
         IF event.type = DOOR_LOCK /\ ~InList(event.report_id, ids)
         THEN LET ids2 == Append(ids, event.report_id) IN
              IF event.event_type \in DOMAIN NON_LOCK_EVENT
              THEN ParseEventsMarkLate(data, i + 1, ids2, sts)
              ELSE IF event.event_type \notin DOMAIN STATE_ENUM
              THEN [report_ids |-> ids, states |-> sts, exc |-> "KeyError:event_type"]
              ELSE ParseEventsMarkLate(data, i + 1, ids2,
                                       Append(sts, STATE_ENUM[event.event_type]))
         ELSE ParseEventsMarkLate(data, i + 1, ids, sts)

RECURSIVE ParseEvents(_, _, _, _)
ParseEvents(data, i, ids, sts) ==
    IF i > Len(data)
    THEN [report_ids |-> ids, states |-> sts, exc |-> "none"]
    ELSE LET event == data[i] IN
         IF event.type = DOOR_LOCK /\ ~InList(event.report_id, ids)
         THEN LET ids2 == Append(ids, event.report_id) IN
              IF event.event_type \in DOMAIN NON_LOCK_EVENT
              THEN ParseEvents(data, i + 1, ids2, sts)
              ELSE IF event.event_type \notin DOMAIN STATE_ENUM
              THEN [report_ids |-> ids2, states |-> sts, exc |-> "KeyError:event_type"]
              ELSE ParseEvents(data, i + 1, ids2,
                               Append(sts, STATE_ENUM[event.event_type]))
         ELSE ParseEvents(data, i + 1, ids, sts)

\* get_state_history() with states = [] moved inside the "OK!" branch
get_state_historyLateInit(response, ids) ==
    IF response = NoResponse
    THEN [report_ids |-> ids, states |-> <<>>, exc |-> "RequestException"]
    ELSE IF response.status_code = 200 /\ response.message = OK
    THEN ParseEvents(response.data, 1, ids, <<>>)
    ELSE [report_ids |-> ids, states |-> <<>>, exc |-> "UnboundLocalError"]

\* get_state_history() after the request: the list returned (or the exception
\* raised) and report_ids afterwards.
get_state_history(response, ids) ==
    IF response = NoResponse
    THEN [report_ids |-> ids, states |-> <<>>, exc |-> "RequestException"]
    ELSE IF response.status_code = 200
    THEN IF response.message = OK
         THEN ParseEvents(response.data, 1, ids, <<>>)
         ELSE [report_ids |-> ids, states |-> <<>>, exc |-> "none"]
    \* `states` is bound only in the 200 branch: return states raises
    ELSE [report_ids |-> ids, states |-> <<>>, exc |-> "UnboundLocalError"]

-----------------------------------------------------------------------------
(* get_state(): the loop over the device list *)

\* ScanDevices without the early return: the last matching entry wins
RECURSIVE ScanDevicesLast(_, _, _)
ScanDevicesLast(devices, i, name) ==
    IF i > Len(devices) THEN None
    ELSE LET rest == ScanDevicesLast(devices, i + 1, name) IN
         IF rest # None THEN rest
         ELSE IF devices[i].name = name THEN devices[i].status_open[1]
         ELSE None

RECURSIVE ScanDevices(_, _, _)
ScanDevices(devices, i, name) ==
    IF i > Len(devices) THEN None
    ELSE IF devices[i].name = name THEN devices[i].status_open[1]
    ELSE ScanDevices(devices, i + 1, name)

\* get_state() after the request: the value returned (None when the function
\* falls off its end) or the exception raised.
get_state(response, name) ==
    IF response = NoResponse
    THEN [value |-> None, exc |-> "RequestException"]
    ELSE IF response.status_code = 200 /\ response.message = OK
    THEN [value |-> ScanDevices(response.data, 1, name), exc |-> "none"]
    ELSE [value |-> None, exc |-> "none"]

-----------------------------------------------------------------------------
(* is_locked *)

\* is_locked written as "not unlocked"
is_lockedNotUnlocked(s) == s # UNLOCK_STATE

\* Doorman.is_locked: self._state == Doorman.LOCK_STATE
is_locked(s) == s = LOCK_STATE

-----------------------------------------------------------------------------
(* State *)

\* the login answers that matter to a validation: none is drawn when the
\* session is not stale
Answers(ld, t) ==
    IF "expires_in" \in DOMAIN ld /\ TokenExpired(ld, t) THEN LoginAnswers
    ELSE {"token"}

\* async_setup_platform(): one successful login and one status fetch, then
\* Doorman(state, login_data, ...) for a device of the response.
Init ==
    /\ state \in {LOCK_STATE, UNLOCK_STATE, JAMMED}
    /\ \E exp \in ExpiresIn : login_data = login("token", 0, 1, exp)
    /\ report_ids = <<>>
    /\ now = 0
    /\ issued = 1
    /\ pc = "idle"
    /\ states = <<>>
    /\ published = <<>>
    /\ outcome = "init"
    /\ histResp = NoResponse
    /\ statusResp = NoResponse
    /\ logins = 0
    /\ heap = <<>>
    /\ entity = <<>>

\* the clock advances (at any point, also inside a cycle)
Tick ==
    \E d \in Deltas :
        /\ now + d <= MaxTicks * TimeStep
        /\ now' = now + d
        /\ UNCHANGED <<state, login_data, report_ids, issued, pc, states,
                       published, outcome, histResp, statusResp, logins,
                       heap, entity>>

\* update(), first statement: states = self.get_state_history()
UpdateHistory ==
    /\ pc = "idle"
    /\ \E answer \in Answers(login_data, now), exp \in ExpiresIn,
          response \in HistResponses :
        LET v == validate_access_token(login_data, now, answer, issued + 1, exp)
            exc == AccessTokenExc(v)
            h == get_state_history(response, report_ids)
        IN  /\ login_data' = v.login_data
            /\ issued' = IF v.calls = 1 /\ answer = "token" THEN issued + 1 ELSE issued
            /\ logins' = v.calls
            /\ published' = <<>>
            /\ statusResp' = NoResponse
            /\ IF exc # "none"
               THEN /\ outcome' = exc
                    /\ pc' = "idle"
                    /\ states' = <<>>
                    /\ histResp' = NoResponse
                    /\ UNCHANGED report_ids
               ELSE /\ histResp' = response
                    /\ report_ids' = h.report_ids
                    /\ IF h.exc # "none"
                       THEN /\ outcome' = h.exc
                            /\ pc' = "idle"
                            /\ states' = <<>>
                       ELSE /\ outcome' = "running"
                            /\ pc' = "loop"
                            /\ states' = h.states
    /\ UNCHANGED <<state, now, heap, entity>>

\* the for loop with the write moved after it: only the last state is
\* assigned and published
UpdatePublishLast ==
    /\ pc = "loop"
    /\ states # <<>>
    /\ state' = states[Len(states)]
    /\ published' = Append(published, states[Len(states)])
    /\ states' = <<>>
    /\ UNCHANGED <<login_data, report_ids, now, issued, pc, outcome, histResp,
                   statusResp, logins, heap, entity>>

\* update(), the for loop: self._state = state; self.async_write_ha_state()
UpdatePublish ==
    /\ pc = "loop"
    /\ states # <<>>
    /\ state' = Head(states)
    /\ published' = Append(published, Head(states))
    /\ states' = Tail(states)
    /\ UNCHANGED <<login_data, report_ids, now, issued, pc, outcome, histResp,
                   statusResp, logins, heap, entity>>

\* update(), last statement: self._state = self.get_state()
UpdateStatus ==
    /\ pc = "loop"
    /\ states = <<>>
    /\ \E answer \in Answers(login_data, now), exp \in ExpiresIn,
          response \in StatusResponses :
        LET v == validate_access_token(login_data, now, answer, issued + 1, exp)
            exc == AccessTokenExc(v)
            g == get_state(response, MyName)
        IN  /\ login_data' = v.login_data
            /\ issued' = IF v.calls = 1 /\ answer = "token" THEN issued + 1 ELSE issued
            /\ logins' = v.calls
            /\ pc' = "idle"
            /\ histResp' = NoResponse
            /\ IF exc # "none"
               THEN /\ outcome' = exc
                    /\ UNCHANGED <<state, statusResp>>
               ELSE /\ statusResp' = response
                    /\ IF g.exc # "none"
                       THEN /\ outcome' = g.exc
                            /\ UNCHANGED state
                       ELSE /\ outcome' = "done"
                            /\ state' = g.value
    /\ UNCHANGED <<report_ids, now, states, published, heap, entity>>

Next == Tick \/ UpdateHistory \/ UpdatePublish \/ UpdateStatus

Spec == Init /\ [][Next]_vars

-----------------------------------------------------------------------------
(* Two entities created by one async_setup_platform() call *)

\* the devices of the discovery response, one Doorman each
Entities == {1, 2}
EntityName == <<MyName, OtherName>>

\* the history pages drawn for the pair: the state-mapped door-lock events
PairEvents == {e \in Events : e.type = DOOR_LOCK /\ e.event_type \in DOMAIN STATE_ENUM}

PairHistResponses ==
    {Response(200, OK, b) : b \in SeqsUpTo(PairEvents, MaxBatch)}
        \cup {Response(200, "FAIL", <<>>), Response(500, "", <<>>), NoResponse}

\* self.login_data.update(login(...)): the dict the entity holds is changed
\* in place
StoreSessionInPlace(hp, ref, fresh) == [heap |-> [hp EXCEPT ![ref] = fresh], ref |-> ref]

\* self.login_data = login(...): the attribute is bound to the new dict that
\* login() returns; the dict held before is left as it is
StoreSession(hp, ref, fresh) == [heap |-> Append(hp, fresh), ref |-> Len(hp) + 1]

\* the session entity e holds
SessionOf(hp, ent, e) == hp[ent[e].login_data]

\* async_setup_platform(): one login, whose dict is passed to every Doorman;
\* each Doorman gets its device's raw state, its name and its own empty list.
InitPair ==
    /\ state = LOCK_STATE
    /\ \E exp \in ExpiresIn :
           /\ login_data = login("token", 0, 1, exp)
           /\ heap = <<login("token", 0, 1, exp)>>
    /\ entity \in [Entities -> {[login_data |-> 1, report_ids |-> <<>>, state |-> s] :
                                   s \in {LOCK_STATE, UNLOCK_STATE}}]
    /\ report_ids = <<>>
    /\ now = 0
    /\ issued = 1
    /\ pc = "idle"
    /\ states = <<>>
    /\ published = <<>>
    /\ outcome = "init"
    /\ histResp = NoResponse
    /\ statusResp = NoResponse
    /\ logins = 0

\* update() of entity e, as one step.  The validation before get_state()
\* runs at the same clock value as the one before get_state_history(): it
\* finds the session just validated and does nothing more.
PairUpdate(e) ==
    \E answer \in Answers(SessionOf(heap, entity, e), now), exp \in ExpiresIn,
       hresp \in PairHistResponses, sresp \in StatusResponses :
        LET me == entity[e]
            v == validate_access_token(heap[me.login_data], now, answer, issued + 1, exp)
            exc == AccessTokenExc(v)
            stored == IF v.calls = 1 /\ v.exc = "none"
                      THEN StoreSession(heap, me.login_data, v.login_data)
                      ELSE [heap |-> heap, ref |-> me.login_data]
            h == get_state_history(hresp, me.report_ids)
            g == get_state(sresp, EntityName[e])
            tail == IF h.states = <<>> THEN me.state ELSE h.states[Len(h.states)]
        IN  /\ heap' = stored.heap
            /\ issued' = IF v.calls = 1 /\ answer = "token" THEN issued + 1 ELSE issued
            /\ entity' = [entity EXCEPT ![e] =
                   [login_data |-> stored.ref,
                    report_ids |-> IF exc # "none" THEN me.report_ids ELSE h.report_ids,
                    state |-> IF exc # "none" \/ h.exc # "none" THEN me.state
                              ELSE IF g.exc # "none" THEN tail
                              ELSE g.value]]
            /\ UNCHANGED <<state, login_data, report_ids, now, pc, states,
                           published, outcome, histResp, statusResp, logins>>

NextPair == Tick \/ \E e \in Entities : PairUpdate(e)

SpecPair == InitPair /\ [][NextPair]_vars

-----------------------------------------------------------------------------
(* Vocabulary of the properties *)

Ok200(r) == r.status_code = 200 /\ r.message = OK

\* the status response lists a device whose name is the entity's name
Found(r) == Ok200(r) /\ \E i \in 1..Len(r.data) : r.data[i].name = MyName

\* the raw state of the first entry of the response with the entity's name
SnapshotState(r) ==
    LET i == CHOOSE k \in 1..Len(r.data) :
                 /\ r.data[k].name = MyName
                 /\ \A j \in 1..(k - 1) : r.data[j].name # MyName
    IN  r.data[i].status_open[1]

\* event i of a batch is a door-lock event not seen before the batch nor
\* earlier in it
IsNew(data, i, seen) ==
    /\ data[i].type = DOOR_LOCK
    /\ ~InList(data[i].report_id, seen)
    /\ \A j \in 1..(i - 1) :
           ~(data[j].type = DOOR_LOCK /\ data[j].report_id = data[i].report_id)

\* the validity of a session (logged_in_at + expires_in) has elapsed at time t
Elapsed(ld, t) == "expires_in" \in DOMAIN ld /\ ld.loggedin + ld.expires_in < t

Recognized(c) == c \in DOMAIN STATE_ENUM \/ c \in DOMAIN NON_LOCK_EVENT

AllNewRecognized(data, seen) ==
    \A i \in 1..Len(data) : IsNew(data, i, seen) => Recognized(data[i].event_type)

\* the states of the new events with a state-mapped code, in batch order
ExpectedStates(data, seen) ==
    LET Mapped(i) == IsNew(data, i, seen) /\ data[i].event_type \in DOMAIN STATE_ENUM
        idx == SelectSeq([i \in 1..Len(data) |-> i], Mapped)
    IN  [k \in 1..Len(idx) |-> STATE_ENUM[data[idx[k]].event_type]]

\* a step of update() that ran validate_access_token()
ValidateStep ==
    /\ now' = now
    /\ \/ pc = "idle"
       \/ pc = "loop" /\ states = <<>>

AuthErrors == {"KeyError:expires_in", "LoginError", "KeyError:access_token"}

\* a step in which get_state_history() received a response
HistoryFetched == pc = "idle" /\ now' = now /\ histResp' # NoResponse

\* a step in which get_state() received a response
StatusFetched == pc = "loop" /\ states = <<>> /\ now' = now /\ statusResp' # NoResponse

-----------------------------------------------------------------------------
(* Properties *)

\* C1: when the status fetch of a cycle succeeds and finds the device by
\* name, the lock state after update() is the raw state of the snapshot,
\* whatever the history of the cycle published.
C1_StatusAuthority ==
    (outcome = "done" /\ Found(statusResp)) => state = SnapshotState(statusResp)

\* C1 witness: history published Locked, the snapshot said unlocked.
C1_Witness ==
    /\ outcome = "done"
    /\ Found(statusResp)
    /\ published = <<LOCK_STATE>>
    /\ state = UNLOCK_STATE

\* C2 as claimed: when the status fetch yields no update (no entry with the
\* entity's name, a failure marker, a non-200 response), the lock state after
\* update() is the value it had before the status fetch.
C2_StatusDegradation ==
    [][(StatusFetched /\ ~Found(statusResp')) => state' = state]_vars

\* C3 as claimed: the same history response received in two consecutive
\* cycles yields an empty output sequence the second time.
C3_ReplayEmpty ==
    [][(HistoryFetched /\ histResp' = histResp) => (pc' = "loop" => states' = <<>>)]_vars

\* C4 as claimed: a new door-lock event with a code in neither table does not
\* abort the batch: the cycle goes on with the states of the other new events.
C4_UnrecognizedResilience ==
    [][(HistoryFetched /\ Ok200(histResp') /\ ~AllNewRecognized(histResp'.data, report_ids))
         => (pc' = "loop" /\ states' = ExpectedStates(histResp'.data, report_ids))]_vars

\* C5 as claimed: a validation that meets a session whose validity has
\* elapsed (by any amount) performs exactly one login and holds a session with
\* another token afterwards (where the login itself does not fail).
C5_TokenRefresh ==
    [][(ValidateStep /\ Elapsed(login_data, now) /\ outcome' \notin AuthErrors)
         => (logins' = 1 /\ login_data'.access_token # login_data.access_token)]_vars

\* C6 as claimed: no authenticated request is sent with a token whose
\* validity has elapsed at the time of the request.
C6_ValidTokenOnEveryCall ==
    [][(ValidateStep /\ outcome' \notin AuthErrors) => ~Elapsed(login_data', now')]_vars

\* C7 as claimed: a non-2xx history response degrades to an empty sequence:
\* no error, report_ids unchanged, the cycle goes on to the status fetch.
C7_HistoryTransportFailure ==
    [][(HistoryFetched /\ histResp'.status_code # 200)
         => (pc' = "loop" /\ states' = <<>> /\ report_ids' = report_ids)]_vars

\* C8 as claimed: a failed re-login abandons the cycle with lock state, seen
\* report ids and session as they were, so that a later cycle can succeed.
C8_AuthFailure ==
    [][(ValidateStep /\ pc = "idle" /\ outcome' \in {"LoginError", "KeyError:access_token"})
         => (state' = state /\ report_ids' = report_ids /\ login_data' = login_data)]_vars

\* C9: for a successful history fetch in which every new door-lock event has
\* a recognized code, the output is the state mapping of the new,
\* non-informational door-lock events, in the order received.
C9_ReconcileOrdering ==
    [][(HistoryFetched /\ Ok200(histResp') /\ AllNewRecognized(histResp'.data, report_ids))
         => (pc' = "loop" /\ states' = ExpectedStates(histResp'.data, report_ids))]_vars

\* C9 witness: new events [1801 id=1, 1807 id=2] yielded [Unlocked, Locked].
C9_Witness ==
    /\ pc = "loop"
    /\ published = <<>>
    /\ Len(histResp.data) = 2
    /\ histResp.data[1].event_type = "1801"
    /\ histResp.data[2].event_type = "1807"
    /\ states = <<UNLOCK_STATE, LOCK_STATE>>

\* C10 as claimed: an informational door-lock event contributes no state, and
\* its report id is in report_ids after the cycle that first received it.
C10_InformationalFilter ==
    [][(HistoryFetched /\ Ok200(histResp'))
         => \A i \in 1..Len(histResp'.data) :
                (histResp'.data[i].type = DOOR_LOCK
                    /\ histResp'.data[i].event_type \in DOMAIN NON_LOCK_EVENT)
                => InList(histResp'.data[i].report_id, report_ids')]_vars

\* C11: is_locked is true exactly when the lock state is the Locked value:
\* it is false for Unlocked, for a raw vendor status string and for an absent
\* state, and these are all the values the lock state takes.
C11_IsLocked ==
    /\ state \in {LOCK_STATE, UNLOCK_STATE, JAMMED, None}
    /\ state = LOCK_STATE => is_locked(state)
    /\ state = UNLOCK_STATE => ~is_locked(state)
    /\ state = JAMMED => ~is_locked(state)
    /\ state = None => ~is_locked(state)

\* C11 witness: a completed cycle left a raw vendor status, read as not locked.
C11_Witness == outcome = "done" /\ state = JAMMED /\ ~is_locked(state)

\* C12: inside a cycle each history-derived state is assigned to the lock
\* state and published once, in output order, before the next one; the status
\* snapshot is fetched only when none is left, and fetching it publishes
\* nothing more.
C12_PublicationOrder ==
    [][(pc = "loop" /\ now' = now)
         => IF states # <<>>
            THEN /\ state' = Head(states)
                 /\ published' = Append(published, Head(states))
                 /\ states' = Tail(states)
                 /\ pc' = "loop"
                 /\ statusResp' = NoResponse
            ELSE /\ published' = published
                 /\ pc' = "idle"]_vars

\* C12 witness: of the output [Unlocked, Locked] the first state is assigned
\* and published, the second is still to come and no status was fetched yet.
C12_Witness ==
    /\ pc = "loop"
    /\ published = <<UNLOCK_STATE>>
    /\ state = UNLOCK_STATE
    /\ states = <<LOCK_STATE>>
    /\ statusResp = NoResponse

\* C13: the seen report ids only grow: every step keeps the ids it found (the
\* list before is a prefix of the list after), and the list changes only in
\* the step in which get_state_history() reconciles a successful response.
C13_SeenAppendOnly ==
    [][/\ Len(report_ids) <= Len(report_ids')
       /\ SubSeq(report_ids', 1, Len(report_ids)) = report_ids
       /\ report_ids' # report_ids => (HistoryFetched /\ Ok200(histResp'))]_vars

\* C13 witness: ids of more than one cycle are held together (a page has at
\* most MaxBatch events), after a cycle that was aborted.
C13_Witness ==
    /\ Len(report_ids) > MaxBatch
    /\ outcome = "KeyError:event_type"

\* the event loop gets as far as event i: no new door-lock event before it
\* has an unrecognized code
Reached(data, i, seen) ==
    \A j \in 1..(i - 1) : ~(IsNew(data, j, seen) /\ ~Recognized(data[j].event_type))

\* C14: every door-lock event the loop gets to has its report id in the seen
\* ids afterwards, whatever its code (state-mapped, informational or
\* unrecognized); the only ids added are ids of door-lock events of the batch.
C14_MarkSeen ==
    [][(HistoryFetched /\ Ok200(histResp'))
         => LET data == histResp'.data IN
            /\ \A i \in 1..Len(data) :
                   (data[i].type = DOOR_LOCK /\ Reached(data, i, report_ids))
                   => InList(data[i].report_id, report_ids')
            /\ \A k \in 1..Len(report_ids') :
                   \/ InList(report_ids'[k], report_ids)
                   \/ \E i \in 1..Len(data) :
                          /\ data[i].type = DOOR_LOCK
                          /\ data[i].report_id = report_ids'[k]]_vars

\* C14 witness: the lookup of an unrecognized code raised, and the id of that
\* event is in the seen ids.
C14_Witness ==
    /\ outcome = "KeyError:event_type"
    /\ \E i \in 1..Len(histResp.data) :
           /\ ~Recognized(histResp.data[i].event_type)
           /\ report_ids[Len(report_ids)] = histResp.data[i].report_id

\* C15: a validation that meets a session whose validity has not elapsed
\* makes no login and leaves the session as it is; the session changes only
\* in a validation that logs in, and then to the whole result of that login.
C15_FreshSessionUntouched ==
    [][/\ (ValidateStep /\ "expires_in" \in DOMAIN login_data
               /\ ~Elapsed(login_data, now))
          => (logins' = 0 /\ login_data' = login_data)
       /\ login_data' # login_data
          => /\ ValidateStep
             /\ logins' = 1
             /\ \E a \in {"token", "no_token"}, e \in ExpiresIn :
                    login_data' = login(a, now, issued + 1, e)]_vars

\* C15 witness: the history step of a cycle logged in again (second token),
\* the status step of the same cycle validated that session and kept it.
C15_Witness ==
    /\ outcome = "done"
    /\ logins = 0
    /\ "access_token" \in DOMAIN login_data
    /\ login_data.access_token = issued
    /\ issued > 1
    /\ ~Elapsed(login_data, now)

\* C16: a history response with HTTP 200 and a marker other than the success
\* marker yields an empty sequence: the seen ids and the lock state are left
\* alone and the cycle goes on to the status fetch.
C16_HistoryLogicalFailure ==
    [][(HistoryFetched /\ histResp'.status_code = 200 /\ histResp'.message # OK)
         => /\ pc' = "loop"
            /\ outcome' = "running"
            /\ states' = <<>>
            /\ report_ids' = report_ids
            /\ state' = state]_vars

\* C16 witness: the cycle stands before its status fetch with the failure
\* marker received and nothing to publish.
C16_Witness ==
    /\ pc = "loop"
    /\ histResp.status_code = 200
    /\ histResp.message # OK
    /\ states = <<>>
    /\ published = <<>>

\* C18 as claimed: every new door-lock event with a state-mapped code whose
\* report id enters the seen ids has its state handed to the publishing loop
\* (and so published once), also when the batch is cut short.
C18_NoLostTransition ==
    [][(HistoryFetched /\ Ok200(histResp'))
         => LET data == histResp'.data
                entered == {i \in 1..Len(data) :
                               /\ IsNew(data, i, report_ids)
                               /\ InList(data[i].report_id, report_ids')
                               /\ data[i].event_type \in DOMAIN STATE_ENUM}
            IN  entered # {} => (pc' = "loop" /\ Len(states') = Cardinality(entered))]_vars

\* the states of the new events of the entity's own device (event name equal
\* to the entity's name) with a state-mapped code, in batch order
ExpectedOwnStates(data, seen) ==
    LET Own(i) == /\ IsNew(data, i, seen)
                  /\ data[i].event_type \in DOMAIN STATE_ENUM
                  /\ data[i].name = MyName
        idx == SelectSeq([i \in 1..Len(data) |-> i], Own)
    IN  [k \in 1..Len(idx) |-> STATE_ENUM[data[idx[k]].event_type]]

\* C19 as claimed: the intermediate states of a cycle come only from history
\* events of the entity's own device.
C19_EventAttribution ==
    [][(HistoryFetched /\ Ok200(histResp') /\ pc' = "loop")
         => states' = ExpectedOwnStates(histResp'.data, report_ids)]_vars

\* entity e's session or seen report ids differ after the step
PairChanged(e) ==
    \/ SessionOf(heap', entity', e) # SessionOf(heap, entity, e)
    \/ entity'[e].report_ids # entity[e].report_ids

\* C17: of two entities seeded with the same login result, a step changes the
\* session (token, expiry, acquisition time) or the seen report ids of at most
\* one: one entity's re-login or reconciliation never shows in the other.
C17_SessionIndependence ==
    [][\A e \in Entities, o \in Entities :
           (e # o /\ PairChanged(e)) => ~PairChanged(o)]_vars

\* C17 witness: the first entity has logged in again and reconciled an
\* event; the second still holds the session and the empty list of setup.
C17_Witness ==
    /\ heap # <<>>
    /\ "access_token" \in DOMAIN SessionOf(heap, entity, 1)
    /\ SessionOf(heap, entity, 1).access_token > 1
    /\ SessionOf(heap, entity, 2) = login("token", 0, 1, TimeStep)
    /\ entity[1].report_ids # <<>>
    /\ entity[2].report_ids = <<>>

====
